---- MODULE Spec2Model ----
(***************************************************************************)
(* Model of industry_classification/vndirect.py: the construction of the   *)
(* VNDirect query payload (get_ind_class), the splitting of the JSON       *)
(* response into (DataFrame, metadata), and the chaining of a lookup       *)
(* result into the price loader (get_price_from_ind_df).                   *)
(*                                                                         *)
(* A Python str is a sequence of tokens.  A token is either one of the     *)
(* characters of SpecialChars or a run of ASCII letters and digits such as *)
(* "AAA" or "codeList"; the str is the concatenation of its tokens.        *)
(* Python values are tagged records: [t |-> "str", v |-> tokens],          *)
(* [t |-> "int", v |-> n], [t |-> "list", v |-> seq], [t |-> "None"].      *)
(* A Python dict is the sequence of its <<key, value>> pairs in insertion  *)
(* order.                                                                  *)
(***************************************************************************)
EXTENDS Integers, Sequences, FiniteSets, TLC

VARIABLES
    PAYLOAD_Q_KEYS,   \* module-level dict, vndirect.py:36
    BASE_PAYLOAD,     \* module-level dict, vndirect.py:45
    pc,               \* "idle", or "awaiting" while httpx.get is in flight
    want_level,       \* industry level the caller of the lookup asked for (0: none)
    frame,            \* locals of the running get_ind_class call
    request,          \* the GET handed to httpx
    resp,             \* what httpx.get produced for the last lookup
    ret,              \* outcome of the last finished call
    loader,           \* arguments the last price call gave to DataLoader
    filtered_before   \* history: some lookup so far was built with a filter set

vars == <<PAYLOAD_Q_KEYS, BASE_PAYLOAD, pc, want_level, frame, request, resp, ret, loader,
          filtered_before>>

----------------------------------------------------------------------------
(* Bounds of the model *)

MaxCodeList == 2
MaxRecords == 2

----------------------------------------------------------------------------
(* Python values and str operations *)

PyNone == [t |-> "None"]
PyStr(s) == [t |-> "str", v |-> s]
PyInt(n) == [t |-> "int", v |-> n]
PyList(xs) == [t |-> "list", v |-> xs]

\* bool(x) as used by `if code_list:`
Truthy(x) == x.t = "list" /\ Len(x.v) > 0

\* str(x) / f"{x}"
FormatValue(x) == IF x.t = "int" THEN <<ToString(x.v)>> ELSE x.v

RECURSIVE Join(_, _)
\* sep.join(xs)
Join(sep, xs) ==
    IF Len(xs) = 0 THEN <<>>
    ELSE IF Len(xs) = 1 THEN xs[1]
    ELSE xs[1] \o sep \o Join(sep, Tail(xs))

RECURSIVE Split(_, _)
\* s.split(c) for a one-character separator c
Split(s, c) ==
    IF \A i \in 1..Len(s) : s[i] # c THEN <<s>>
    ELSE LET i == CHOOSE k \in 1..Len(s) : s[k] = c /\ \A j \in 1..(k - 1) : s[j] # c
         IN  <<SubSeq(s, 1, i - 1)>> \o Split(SubSeq(s, i + 1, Len(s)), c)

\* d[k] = v on a dict: an existing key keeps its position, a new key is appended
DictSet(d, k, v) ==
    IF \E i \in 1..Len(d) : d[i][1] = k
    THEN [i \in 1..Len(d) |-> IF d[i][1] = k THEN <<k, v>> ELSE d[i]]
    ELSE Append(d, <<k, v>>)

DictHas(d, k) == \E i \in 1..Len(d) : d[i][1] = k

DictGet(d, k) == d[CHOOSE i \in 1..Len(d) : d[i][1] = k][2]

----------------------------------------------------------------------------
(* Constants of vndirect.py *)

MAX_QUERY_SIZE == 9999
DEFAULT_INDUSTRY_LEVEL == 1
CONTENT_TYPE == "application/json"
BASE_URL == "https://finfo-api.vndirect.com.vn/v4/industry_classification"
PAYLOAD_Q_JOIN_CHAR == <<"~">>
\* urlencode called without safe=: no character is exempt
PAYLOAD_SAFE_CHARS_None == {}

\* line 49
PAYLOAD_SAFE_CHARS == {":", ","}

InitPayloadQKeys ==
    << <<"codeList", PyStr(<<>>)>>,
       <<"industryCode", PyStr(<<>>)>>,
       <<"industryLevel", PyStr(<<>>)>>,
       <<"higherLevelCode", PyStr(<<>>)>>,
       <<"englishName", PyStr(<<>>)>>,
       <<"vietnameseName", PyStr(<<>>)>> >>

InitBasePayload == << <<"q", PyStr(<<>>)>>, <<"size", PyStr(<<>>)>> >>

\* common.configs.USER_AGENTS, a pool the module only reads
USER_AGENTS == {"UA1", "UA2"}

----------------------------------------------------------------------------
(* urllib.parse.quote_plus / urlencode *)

SpecialChars == {"~", ":", ",", "&", "=", "/", "?", "#", "+", "%", " "}

\* the characters quote() never escapes: letters, digits and "_.-~"
AlwaysSafe(c) == c \notin SpecialChars \/ c = "~"

PctCode(c) ==
    CASE c = "&" -> "%26"
      [] c = "=" -> "%3D"
      [] c = "/" -> "%2F"
      [] c = "?" -> "%3F"
      [] c = "#" -> "%23"
      [] c = "+" -> "%2B"
      [] c = "%" -> "%25"
      [] c = ":" -> "%3A"
      [] c = "," -> "%2C"
      [] c = " " -> "%20"
      [] OTHER   -> c

\* quote_plus(s, safe): quote with ' ' kept, then ' ' replaced by '+'
quote_plus(s, safe) ==
    [i \in 1..Len(s) |->
        IF s[i] = " " THEN "+"
        ELSE IF AlwaysSafe(s[i]) \/ s[i] \in safe THEN s[i]
        ELSE PctCode(s[i])]

\* urlencode(query, safe=safe) on a dict: 'k=v' pairs joined by '&'
urlencode(query, safe) ==
    Join(<<"&">>,
         [i \in 1..Len(query) |->
             quote_plus(<<query[i][1]>>, safe) \o <<"=">>
                 \o quote_plus(FormatValue(query[i][2]), safe)])

----------------------------------------------------------------------------
(* get_ind_class, lines 84-101: the payload *)

\* no copy: the local name is bound to the module-level object itself
ModuleObjectAfterCall_NoCopy(template, local) == local

\* deepcopy(x): the copy is a new object, so what the call writes into its
\* local dict never reaches the module-level object it was copied from
ModuleObjectAfterCall(template, local) == template

\* lines 85-94 with line 90 writing under the key of line 88
PayloadQKeys_CrossedKeys(template, a) ==
    LET d0 == DictSet(template, "industryLevel", PyInt(DEFAULT_INDUSTRY_LEVEL))
        d1 == IF Truthy(a.code_list)
              THEN DictSet(d0, "codeList", PyStr(Join(<<",">>, a.code_list.v)))
              ELSE d0
        d2 == IF Truthy(a.industry_codes)
              THEN DictSet(d1, "codeList", PyStr(Join(<<",">>, a.industry_codes.v)))
              ELSE d1
        d3 == IF Truthy(a.higher_level_codes)
              THEN DictSet(d2, "higherLevelCode", PyStr(Join(<<",">>, a.higher_level_codes.v)))
              ELSE d2
        d4 == DictSet(d3, "englishName", PyStr(a.english_name))
        d5 == DictSet(d4, "englishName", PyStr(a.vietnamese_name))
    IN  d5

\* lines 85-94
PayloadQKeys(template, a) ==
    LET d0 == DictSet(template, "industryLevel", PyInt(DEFAULT_INDUSTRY_LEVEL))
        d1 == IF Truthy(a.code_list)
              THEN DictSet(d0, "codeList", PyStr(Join(<<",">>, a.code_list.v)))
              ELSE d0
        d2 == IF Truthy(a.industry_codes)
              THEN DictSet(d1, "industryCode", PyStr(Join(<<",">>, a.industry_codes.v)))
              ELSE d1
        d3 == IF Truthy(a.higher_level_codes)
              THEN DictSet(d2, "higherLevelCode", PyStr(Join(<<",">>, a.higher_level_codes.v)))
              ELSE d2
        d4 == DictSet(d3, "englishName", PyStr(a.english_name))
        d5 == DictSet(d4, "englishName", PyStr(a.vietnamese_name))
    IN  d5

\* line 96 with a filter that leaves out the keys whose value is empty
QSegments_SkipEmpty(d) ==
    LET NonEmpty(p) == Len(FormatValue(p[2])) > 0
        kept == SelectSeq(d, NonEmpty)
    IN  [i \in 1..Len(kept) |-> <<kept[i][1], ":">> \o FormatValue(kept[i][2])]

\* line 96: [f"{key}:{value}" for key, value in payload_q_keys.items()]
QSegments(d) == [i \in 1..Len(d) |-> <<d[i][1], ":">> \o FormatValue(d[i][2])]

\* lines 95-97
PayloadQStr(d) == Join(PAYLOAD_Q_JOIN_CHAR, QSegments(d))

\* lines 84, 98-99
Payload(base, q_str, result_size) ==
    DictSet(DictSet(base, "q", PyStr(q_str)), "size", PyInt(result_size))

----------------------------------------------------------------------------
(* get_ind_class, lines 112-116: the response *)

Raise(e) == [kind |-> "raise", exc |-> e]
Return(df, meta) == [kind |-> "return", df |-> df, meta |-> meta]

\* pandas.DataFrame(data).  A frame is its set of columns and its rows in
\* order; a row is a function from the columns it has a value for (a column
\* outside its domain is a NaN cell).
DataFrame(data) ==
    CASE data.t = "list" ->
            [ok |-> TRUE,
             df |-> [columns |-> UNION {DOMAIN data.v[i] : i \in 1..Len(data.v)},
                     rows |-> data.v]]
      [] data.t = "None" ->
            [ok |-> TRUE, df |-> [columns |-> {}, rows |-> <<>>]]
      [] data.t = "dict" ->
            LET keys == {data.v[i][1] : i \in 1..Len(data.v)}
                cells(c) == DictGet(data.v, c)
            IN  IF keys = {}
                THEN [ok |-> TRUE, df |-> [columns |-> {}, rows |-> <<>>]]
                ELSE IF /\ \A c \in keys : cells(c).t = "list"
                        /\ \A c, e \in keys : Len(cells(c).v) = Len(cells(e).v)
                THEN LET n == Len(cells(CHOOSE c \in keys : TRUE).v)
                     IN  [ok |-> TRUE,
                          df |-> [columns |-> keys,
                                  rows |-> [i \in 1..n |-> [c \in keys |-> cells(c).v[i]]]]]
                ELSE [ok |-> FALSE, exc |-> "ValueError"]
      [] OTHER -> [ok |-> FALSE, exc |-> "ValueError"]

\* line 114 without its `if key != 'data'`
MetadataDict_KeepsData(resp_json) == resp_json

\* line 114: {key: value for key, value in resp_json.items() if key != 'data'}
MetadataDict(resp_json) ==
    LET NotData(p) == p[1] # "data" IN SelectSeq(resp_json, NotData)

\* lines 106-116: what the call ends with, given what httpx.get produced
LookupOutcome(r) ==
    IF r.t = "raise" THEN Raise("httpx.TransportError")
    ELSE IF r.body.t = "text" THEN Raise("JSONDecodeError")
    ELSE IF r.body.t # "object" THEN Raise("TypeError")
    ELSE IF ~DictHas(r.body.v, "data") THEN Raise("KeyError")
    ELSE LET made == DataFrame(DictGet(r.body.v, "data"))
         IN  IF made.ok THEN Return(made.df, MetadataDict(r.body.v))
             ELSE Raise(made.exc)

----------------------------------------------------------------------------
(* get_price_from_ind_df, lines 153-163 *)

\* line 153: ",".join(list(industry_df['codeList'])).split(",")
CodeListOf(df) ==
    IF "codeList" \notin df.columns THEN Raise("KeyError")
    ELSE IF \E i \in 1..Len(df.rows) : "codeList" \notin DOMAIN df.rows[i]
    THEN Raise("TypeError")
    ELSE [kind |-> "value",
          v |-> Split(Join(<<",">>, [i \in 1..Len(df.rows) |-> df.rows[i].codeList]), ",")]

\* lines 154-160: the keyword arguments of DataLoader
LoaderArgs(symbols, start, end, minimal, data_source) ==
    [symbols |-> symbols, start |-> start, end |-> end,
     minimal |-> minimal, data_source |-> data_source]

----------------------------------------------------------------------------
(* Inputs *)

SeqsUpTo(S, n) == UNION {[1..k -> S] : k \in 0..n}

Tickers == {<<"AAA">>, <<"ASM">>}

CodeListArgs == {PyNone} \cup {PyList(xs) : xs \in SeqsUpTo(Tickers, MaxCodeList)}

IndustryCodesArgs ==
    {PyNone, PyList(<<>>),
     PyList(<< <<"8775">> >>),
     PyList(<< <<"8775">>, <<"8777">>, <<"8985">> >>),
     PyList(<< <<"8985">>, <<"8775">> >>),
     PyList(<< <<"8777">>, <<"8777">> >>)}

HigherLevelCodesArgs ==
    {PyNone, PyList(<<>>),
     PyList(<< <<"8000">> >>),
     PyList(<< <<"8", "~", "1">> >>),
     PyList(<< <<"8000">>, <<"8", ",", "1">> >>)}

\* a name holding every kind of character urlencode distinguishes
ReservedName ==
    <<"a", "&", "b", "=", "c", "/", "d", "?", "e", "#", "f", "+", "g", "%", "h",
      " ", "i", ":", "j", ",", "k">>

EnglishNames == {<<>>, <<"oil">>}
VietnameseNames == {<<>>, <<"dau", "~", "khi">>, ReservedName}
ResultSizes == {MAX_QUERY_SIZE, 50}
IndustryLevels == 1..3

Args ==
    [code_list : CodeListArgs,
     industry_codes : IndustryCodesArgs,
     higher_level_codes : HigherLevelCodesArgs,
     english_name : EnglishNames,
     vietnamese_name : VietnameseNames,
     result_size : ResultSizes]

\* the defaults of the signature, lines 53-58
DefaultArgs ==
    [code_list |-> PyNone,
     industry_codes |-> PyNone,
     higher_level_codes |-> PyNone,
     english_name |-> <<>>,
     vietnamese_name |-> <<>>,
     result_size |-> MAX_QUERY_SIZE]

\* records of the provider's 'data' array
Records ==
    {[codeList |-> <<"AAA", ",", "ASM">>],
     [codeList |-> <<"HCM">>],
     [industryCode |-> <<"8775">>]}

DataValues ==
    {PyList(rs) : rs \in SeqsUpTo(Records, MaxRecords)}
    \cup {PyNone, PyInt(5), PyStr(<<"oops">>),
          [t |-> "dict", v |-> <<>>],
          [t |-> "dict", v |-> << <<"codeList", PyList(<<>>)>> >>],
          [t |-> "dict", v |-> << <<"codeList", PyList(<< <<"HCM">> >>)>> >>],
          [t |-> "dict", v |-> << <<"codeList", PyStr(<<"HCM">>)>> >>]}

MetaBefore == {<<>>, << <<"currentPage", PyInt(1)>> >>}
MetaAfter == {<<>>, << <<"total", PyInt(1)>> >>}

Bodies ==
    {[t |-> "text"], [t |-> "array"]}
    \cup {[t |-> "object", v |-> pre \o post] : pre \in MetaBefore, post \in MetaAfter}
    \cup {[t |-> "object", v |-> pre \o << <<"data", d>> >> \o post] :
              pre \in MetaBefore, post \in MetaAfter, d \in DataValues}

Statuses == {200, 404, 500}

\* the frames get_ind_class can return
IndustryFrames ==
    {DataFrame(d).df : d \in {e \in DataValues : DataFrame(e).ok}}

Dates == {"2020-02-02", "2020-04-02"}
DataSources == {"vnd", "cafe"}

----------------------------------------------------------------------------
(* State machine *)
(* pc is the position of the one running call: "idle" (no call), "built"   *)
(* (get_ind_class has executed lines 84-105), "awaiting" (httpx.get, line  *)
(* 106, is in flight) and "returning" (the call has its outcome and        *)
(* control is about to go back to the caller).  frame holds the locals     *)
(* that are still live at that position: after line 110 none of payload,   *)
(* payload_q_keys, payload_str and headers is read again.                  *)

NoFrame == [active |-> FALSE]
NoRequest == [sent |-> FALSE]
NoResp == [t |-> "none"]
NoRet == [kind |-> "none"]
NoLoader == [called |-> FALSE]

Init ==
    /\ PAYLOAD_Q_KEYS = InitPayloadQKeys
    /\ BASE_PAYLOAD = InitBasePayload
    /\ pc = "idle"
    /\ want_level = 0
    /\ frame = NoFrame
    /\ request = NoRequest
    /\ resp = NoResp
    /\ ret = NoRet
    /\ loader = NoLoader
    /\ filtered_before = FALSE

\* lines 84-105: the payload and the headers of the call
Build(a, agent) ==
    LET payload_q_keys == PayloadQKeys(PAYLOAD_Q_KEYS, a)
        payload_q_str == PayloadQStr(payload_q_keys)
        payload == Payload(BASE_PAYLOAD, payload_q_str, a.result_size)
        payload_str == urlencode(payload, PAYLOAD_SAFE_CHARS)
        headers == [content_type |-> CONTENT_TYPE, user_agent |-> agent]
    IN  /\ pc = "idle"
        /\ pc' = "built"
        /\ frame' = [active |-> TRUE, args |-> a,
                     payload_q_keys |-> payload_q_keys,
                     payload |-> payload,
                     payload_str |-> payload_str,
                     headers |-> headers]
        /\ PAYLOAD_Q_KEYS' = ModuleObjectAfterCall(PAYLOAD_Q_KEYS, payload_q_keys)
        /\ BASE_PAYLOAD' = ModuleObjectAfterCall(BASE_PAYLOAD, payload)
        /\ filtered_before' = (filtered_before \/ a # DefaultArgs)
        /\ UNCHANGED <<want_level, request, resp, ret, loader>>

\* get_ind_class called with the filters its signature has (lines 52-59)
GetIndClass == \E a \in Args, agent \in USER_AGENTS : Build(a, agent)

\* lines 119-123
GetFullIndClass == \E agent \in USER_AGENTS : Build(DefaultArgs, agent)

\* get_ind_class called with the industry level its docstring documents
\* (@industry_levels, line 65): the signature, lines 52-59, has no such
\* parameter, so the call ends in a TypeError before line 84
GetIndClassWithLevel ==
    \E level \in IndustryLevels :
        /\ pc = "idle"
        /\ pc' = "returning"
        /\ want_level' = level
        /\ ret' = Raise("TypeError")
        /\ UNCHANGED <<PAYLOAD_Q_KEYS, BASE_PAYLOAD, frame, request, resp, loader, filtered_before>>

\* lines 106-110: the one GET of the call is handed to httpx
HttpGet ==
    /\ pc = "built"
    /\ pc' = "awaiting"
    /\ request' = [sent |-> TRUE, url |-> BASE_URL,
                   params |-> frame.payload_str, headers |-> frame.headers]
    /\ frame' = NoFrame
    /\ UNCHANGED <<PAYLOAD_Q_KEYS, BASE_PAYLOAD, want_level, resp, ret, loader, filtered_before>>

\* lines 106-116 once httpx.get has produced r
Finish(r) ==
    /\ pc = "awaiting"
    /\ pc' = "returning"
    /\ resp' = r
    /\ ret' = LookupOutcome(r)
    /\ request' = NoRequest
    /\ UNCHANGED <<PAYLOAD_Q_KEYS, BASE_PAYLOAD, want_level, frame, loader, filtered_before>>

\* httpx.get raises (connection failure, timeout)
HttpGetRaises == Finish([t |-> "raise"])

\* httpx.get returns a response
HttpGetResponds ==
    \E status \in Statuses, body \in Bodies :
        Finish([t |-> "response", status |-> status, body |-> body])

\* lines 125-163
GetPriceFromIndDf ==
    \E df \in IndustryFrames, start \in Dates, end \in Dates,
       minimal \in BOOLEAN, data_source \in DataSources :
        LET code_list == CodeListOf(df)
        IN  /\ pc = "idle"
            /\ pc' = "returning"
            /\ frame' = [active |-> TRUE, industry_df |-> df, start |-> start,
                         end |-> end, minimal |-> minimal, data_source |-> data_source]
            /\ IF code_list.kind = "raise"
               THEN /\ ret' = code_list
                    /\ loader' = NoLoader
               ELSE /\ loader' = [called |-> TRUE,
                                  args |-> LoaderArgs(code_list.v, start, end,
                                                      minimal, data_source)]
                    /\ ret' = [kind |-> "return", value |-> "price_df"]
            /\ UNCHANGED <<PAYLOAD_Q_KEYS, BASE_PAYLOAD, want_level, request, resp, filtered_before>>

\* the outcome goes to the caller and the frame is gone
ReturnToCaller ==
    /\ pc = "returning"
    /\ pc' = "idle"
    /\ want_level' = 0
    /\ frame' = NoFrame
    /\ request' = NoRequest
    /\ resp' = NoResp
    /\ ret' = NoRet
    /\ loader' = NoLoader
    /\ UNCHANGED <<PAYLOAD_Q_KEYS, BASE_PAYLOAD, filtered_before>>

Next ==
    \/ GetIndClass
    \/ GetFullIndClass
    \/ GetIndClassWithLevel
    \/ HttpGet
    \/ HttpGetRaises
    \/ HttpGetResponds
    \/ GetPriceFromIndDf
    \/ ReturnToCaller

Spec == Init /\ [][Next]_vars

----------------------------------------------------------------------------
(* Properties *)

RECURSIVE Str(_)
\* the text of a token sequence
Str(s) == IF Len(s) = 0 THEN "" ELSE s[1] \o Str(Tail(s))

HasChar(s, c) == \E i \in 1..Len(s) : s[i] = c

Count(s, c) == Cardinality({i \in 1..Len(s) : s[i] = c})

\* piece occurs in s at position pos
At(s, pos, piece) ==
    /\ pos >= 1
    /\ pos + Len(piece) - 1 <= Len(s)
    /\ SubSeq(s, pos, pos + Len(piece) - 1) = piece

EndsWith(s, piece) == At(s, Len(s) - Len(piece) + 1, piece)

\* the elements of a list argument (none when the argument is None)
Elems(x) == IF x.t = "list" THEN x.v ELSE <<>>

NoTildeInElems(x) == \A i \in 1..Len(Elems(x)) : ~HasChar(Elems(x)[i], "~")

RECURSIVE JoinedLen(_)
\* the length of the elements of xs with one separator between neighbours
JoinedLen(xs) ==
    IF Len(xs) = 0 THEN 0
    ELSE IF Len(xs) = 1 THEN Len(xs[1])
    ELSE Len(xs[1]) + 1 + JoinedLen(Tail(xs))

\* where element i of xs starts in such a text, less one
Offset(xs, i) == IF i = 1 THEN 0 ELSE JoinedLen(SubSeq(xs, 1, i - 1)) + 1

\* text is the elements of xs, in order, with a ',' between neighbours
IsCommaJoined(text, xs) ==
    /\ Len(text) = JoinedLen(xs)
    /\ \A i \in 1..Len(xs) :
          /\ At(text, Offset(xs, i) + 1, xs[i])
          /\ i < Len(xs) => text[Offset(xs, i) + Len(xs[i]) + 1] = ","

QKeyOrder ==
    <<"codeList", "industryCode", "industryLevel", "higherLevelCode",
      "englishName", "vietnameseName">>

\* payload['q'] of the running lookup
Q == DictGet(frame.payload, "q").v

\* q cut at '~' is six pieces, piece i being 'key_i:...'
SixSegments(q) ==
    LET parts == Split(q, "~")
    IN  /\ Len(parts) = 6
        /\ \A i \in 1..6 :
              /\ Len(parts[i]) >= 2
              /\ parts[i][1] = QKeyOrder[i]
              /\ parts[i][2] = ":"

NamesWithoutTilde ==
    /\ ~HasChar(frame.args.english_name, "~")
    /\ ~HasChar(frame.args.vietnamese_name, "~")

ListsWithoutTilde ==
    /\ NoTildeInElems(frame.args.code_list)
    /\ NoTildeInElems(frame.args.industry_codes)
    /\ NoTildeInElems(frame.args.higher_level_codes)

\* C1 as stated: whenever neither name holds a '~', q is exactly six
\* 'key:value' segments joined by '~', keys in the fixed order, whatever the
\* three lists hold.
C1_SixSegmentsAnyLists ==
    (pc = "built" /\ NamesWithoutTilde) => SixSegments(Q)

\* C1 amended: whenever neither name and no element of the three lists holds
\* a '~', q is exactly six 'key:value' segments joined by '~', keys in the
\* fixed order, no key left out when its value is empty.
C1_SixSegments ==
    (pc = "built" /\ NamesWithoutTilde /\ ListsWithoutTilde) => SixSegments(Q)

C1_Witness ==
    /\ pc = "built"
    /\ NamesWithoutTilde
    /\ ListsWithoutTilde
    /\ Truthy(frame.args.code_list)
    /\ ~Truthy(frame.args.industry_codes)
    /\ frame.args.vietnamese_name = ReservedName
    /\ SixSegments(Q)

\* C2: the englishName segment of q carries english_name and the
\* vietnameseName segment carries vietnamese_name, for every pair of names.
C2_NameSlotsIndependent ==
    pc = "built" =>
        EndsWith(Q, <<"~", "englishName", ":">> \o frame.args.english_name
                    \o <<"~", "vietnameseName", ":">> \o frame.args.vietnamese_name)

\* C3: q is 'codeList:' then the elements of code_list joined by ',' in
\* input order, '~industryCode:' then those of industry_codes,
\* '~industryLevel:' and one token, '~higherLevelCode:' then those of
\* higher_level_codes, '~englishName:' ...; an empty or absent list gives
\* an empty value.
C3_ListSegments ==
    pc = "built" =>
        LET l1 == Elems(frame.args.code_list)
            l2 == Elems(frame.args.industry_codes)
            l3 == Elems(frame.args.higher_level_codes)
            e1 == 2 + JoinedLen(l1)
            e2 == e1 + 3 + JoinedLen(l2)
            e3 == e2 + 4
            e4 == e3 + 3 + JoinedLen(l3)
        IN  /\ At(Q, 1, <<"codeList", ":">>)
            /\ e1 <= Len(Q) /\ IsCommaJoined(SubSeq(Q, 3, e1), l1)
            /\ At(Q, e1 + 1, <<"~", "industryCode", ":">>)
            /\ e2 <= Len(Q) /\ IsCommaJoined(SubSeq(Q, e1 + 4, e2), l2)
            /\ At(Q, e2 + 1, <<"~", "industryLevel", ":">>)
            /\ At(Q, e3 + 1, <<"~", "higherLevelCode", ":">>)
            /\ e4 <= Len(Q) /\ IsCommaJoined(SubSeq(Q, e3 + 4, e4), l3)
            /\ At(Q, e4 + 1, <<"~", "englishName", ":">>)
            /\ (l1 = << <<"AAA">>, <<"ASM">> >>
                   => Str(SubSeq(Q, 1, e1)) = "codeList:AAA,ASM")
            /\ (l2 = << <<"8775">>, <<"8777">>, <<"8985">> >>
                   => Str(SubSeq(Q, e1 + 2, e2)) = "industryCode:8775,8777,8985")

C3_Witness ==
    /\ pc = "built"
    /\ frame.args.code_list = PyList(<< <<"AAA">>, <<"ASM">> >>)
    /\ frame.args.industry_codes = PyList(<< <<"8775">>, <<"8777">>, <<"8985">> >>)
    /\ frame.args.higher_level_codes = PyNone
    /\ frame.args.english_name = <<>>
    /\ frame.args.vietnamese_name = <<>>
    /\ Str(Q) = "codeList:AAA,ASM~industryCode:8775,8777,8985~industryLevel:1~higherLevelCode:~englishName:~vietnameseName:"

\* C4: in every reachable state the module-level templates equal their
\* initial values, and a lookup built with no filter has
\* q = 'codeList:~industryCode:~industryLevel:1~higherLevelCode:~englishName:~vietnameseName:'
\* and size 9999.
C4_EmptyLookup ==
    /\ PAYLOAD_Q_KEYS = InitPayloadQKeys
    /\ BASE_PAYLOAD = InitBasePayload
    /\ (pc = "built" /\ frame.args = DefaultArgs) =>
          /\ Str(Q) = "codeList:~industryCode:~industryLevel:1~higherLevelCode:~englishName:~vietnameseName:"
          /\ DictGet(frame.payload, "size") = PyInt(9999)
          /\ Str(frame.payload_str) = "q=codeList:~industryCode:~industryLevel:1~higherLevelCode:~englishName:~vietnameseName:&size=9999"

C4_Witness ==
    /\ pc = "built"
    /\ frame.args = DefaultArgs
    /\ filtered_before
    /\ Str(Q) = "codeList:~industryCode:~industryLevel:1~higherLevelCode:~englishName:~vietnameseName:"

\* C5: a lookup that asks for industry level L in 1..3 is built with the
\* segment 'industryLevel:L', and the segment is 'industryLevel:1' only
\* when no level (or level 1) is asked for.
C5_LevelSerialized ==
    /\ want_level \in IndustryLevels =>
          (pc = "built"
              /\ \E i \in 1..(Len(Q) - 2) :
                     At(Q, i, <<"industryLevel", ":", ToString(want_level)>>))
    /\ (pc = "built" /\ \E i \in 1..(Len(Q) - 2) : At(Q, i, <<"industryLevel", ":", "1">>))
          => want_level \in {0, 1}

\* what a percent-encoded token stands for
Unquote(tok) ==
    CASE tok = "+" -> " "
      [] tok = "%26" -> "&"
      [] tok = "%3D" -> "="
      [] tok = "%2F" -> "/"
      [] tok = "%3F" -> "?"
      [] tok = "%23" -> "#"
      [] tok = "%2B" -> "+"
      [] tok = "%25" -> "%"
      [] tok = "%3A" -> ":"
      [] tok = "%2C" -> ","
      [] tok = "%20" -> " "
      [] OTHER -> tok

\* a query string read back as a server reads it: cut at '&', each piece
\* cut at '=', each part unquoted
ParseQuery(s) ==
    LET pieces == Split(s, "&")
    IN  [i \in 1..Len(pieces) |->
            LET parts == Split(pieces[i], "=")
            IN  [j \in 1..Len(parts) |->
                    [k \in 1..Len(parts[j]) |-> Unquote(parts[j][k])]]]

\* reserved characters other than ':' and ',', each with its escape
EscapedReserved ==
    {<<"&", "%26">>, <<"=", "%3D">>, <<"/", "%2F">>, <<"?", "%3F">>,
     <<"#", "%23">>, <<"+", "%2B">>, <<"%", "%25">>}

\* C6: in the query string built from {q, size}, ':' and ',' are never
\* percent-encoded; every other reserved character of q is; the only raw
\* '&' and '=' are the ones of 'q=...&size=...'; read back, the string is
\* the two parameters q and size with their values.
C6_QueryStringEncoding ==
    pc = "built" =>
        LET ps == frame.payload_str
        IN  /\ Count(ps, "%3A") = 0
            /\ Count(ps, "%2C") = 0
            /\ Count(ps, ":") = Count(Q, ":")
            /\ Count(ps, ",") = Count(Q, ",")
            /\ \A e \in EscapedReserved : Count(ps, e[2]) = Count(Q, e[1])
            /\ Count(ps, "&") = 1
            /\ Count(ps, "=") = 2
            /\ \A c \in {"/", "?", "#", "%"} : Count(ps, c) = 0
            /\ Count(ps, "+") = Count(Q, " ")
            /\ ParseQuery(ps) =
                  << << <<"q">>, Q >>,
                     << <<"size">>, <<ToString(frame.args.result_size)>> >> >>

C6_Witness ==
    /\ pc = "built"
    /\ frame.args.vietnamese_name = ReservedName
    /\ Truthy(frame.args.code_list)
    /\ Len(frame.args.code_list.v) = 2
    /\ Count(frame.payload_str, "%26") = 1
    /\ Count(frame.payload_str, ":") = 7
    /\ Count(frame.payload_str, ",") >= 2

\* the response is a JSON object whose 'data' is an array
HasDataList(r) ==
    /\ r.t = "response"
    /\ r.body.t = "object"
    /\ DictHas(r.body.v, "data")
    /\ DictGet(r.body.v, "data").t = "list"

PosOf(d, k) == CHOOSE i \in 1..Len(d) : d[i][1] = k

SpecExampleBody ==
    << <<"data", PyList(<< [codeList |-> <<"AAA", ",", "ASM">>] >>)>>,
       <<"total", PyInt(1)>> >>

\* C7: for a response object with a 'data' array, the lookup returns
\* (records, metadata): the records are the elements of 'data' in order,
\* and metadata is the other top-level pairs, unmodified, in their original
\* order, without 'data' and with nothing else dropped.
C7_SplitResponse ==
    (pc = "returning" /\ HasDataList(resp)) =>
        LET body == resp.body.v
        IN  /\ ret.kind = "return"
            /\ ret.df.rows = DictGet(body, "data").v
            /\ ~DictHas(ret.meta, "data")
            /\ Len(ret.meta) = Len(body) - 1
            /\ \A i \in 1..Len(body) :
                  body[i][1] # "data" => \E j \in 1..Len(ret.meta) : ret.meta[j] = body[i]
            /\ \A j1, j2 \in 1..Len(ret.meta) :
                  j1 < j2 => PosOf(body, ret.meta[j1][1]) < PosOf(body, ret.meta[j2][1])
            /\ (body = SpecExampleBody =>
                  /\ Len(ret.df.rows) = 1
                  /\ ret.meta = << <<"total", PyInt(1)>> >>)

C7_Witness ==
    /\ pc = "returning"
    /\ HasDataList(resp)
    /\ resp.body.v = SpecExampleBody
    /\ ret.kind = "return"
    /\ Len(ret.df.rows) = 1
    /\ ret.meta = << <<"total", PyInt(1)>> >>

\* C8: when the response object has no 'data' key, or its 'data' is not an
\* array, the lookup fails and returns no (records, metadata).
C8_MalformedResponseFails ==
    (/\ pc = "returning"
     /\ resp.t = "response"
     /\ resp.body.t = "object"
     /\ (~DictHas(resp.body.v, "data") \/ DictGet(resp.body.v, "data").t # "list"))
        => ret.kind = "raise"

\* C9: when httpx.get raises or the response status is not 2xx, the lookup
\* fails and returns no (records, metadata), whatever the body holds.
C9_TransportFailureFails ==
    (/\ pc = "returning"
     /\ (resp.t = "raise" \/ (resp.t = "response" /\ resp.status \notin 200..299)))
        => ret.kind = "raise"

RECURSIVE FlattenCodes(_)
\* the comma-split codeList of every row, concatenated in row order
FlattenCodes(rows) ==
    IF Len(rows) = 0 THEN <<>>
    ELSE Split(rows[1].codeList, ",") \o FlattenCodes(Tail(rows))

\* C10: the symbols given to DataLoader are the comma-split codeList of
\* every record, concatenated in record order with duplicates kept, and
\* start, end, minimal and data_source are forwarded unchanged.
C10_TickersFlattened ==
    loader.called =>
        /\ loader.args.symbols = FlattenCodes(frame.industry_df.rows)
        /\ loader.args.start = frame.start
        /\ loader.args.end = frame.end
        /\ loader.args.minimal = frame.minimal
        /\ loader.args.data_source = frame.data_source

====
